---- MODULE Spec2Model ----
(***************************************************************************)
(* Chat session controller of static/script.js: the input field, the send  *)
(* control, the Enter key, the shortcut (tool) buttons, the greeting       *)
(* timer, and the promise chain that settles every request.                *)
(*                                                                         *)
(* A JavaScript string is a sequence of code units.  Text typed by the     *)
(* user or sent by the server is kept one code unit per element; a literal *)
(* of the source that holds no code unit a conversion acts on ("Error: ",  *)
(* "<br>", an engine's exception text) is kept as one element.             *)
(* Every handler runs to completion (one thread, one event loop), so every *)
(* handler is one action.  The timestamp and the scroll position of the    *)
(* transcript are display state no handler reads and are left out.         *)
(***************************************************************************)
EXTENDS Integers, Sequences, FiniteSets

VARIABLES userInput,      \* userInput.value
          chatMessages,   \* children of #chat-messages, in document order
          greeting,       \* greetingElement.style.display: "shown" or "hidden"
          timerFired,     \* the setTimeout callback of line 10 has run
          calls,          \* one record per call of sendQuestion, in call order
          settled,        \* ids of the calls whose promise chain ended, in that order
          uncaught,       \* exceptions that left an event listener
          unhandled       \* rejections that left the promise chain

vars == <<userInput, chatMessages, greeting, timerFired, calls, settled, uncaught, unhandled>>

\* Bound of the model: calls of sendQuestion in one run.
MaxCalls == 2

----------------------------------------------------------------------------
(* JavaScript values that reach the handlers *)

Undefined == [t |-> "undefined", s |-> <<>>, n |-> 0]
Null      == [t |-> "null", s |-> <<>>, n |-> 0]
JStr(s)   == [t |-> "string", s |-> s, n |-> 0]
JNum(n)   == [t |-> "number", s |-> <<>>, n |-> n]
JBool(b)  == [t |-> "boolean", s |-> <<>>, n |-> IF b THEN 1 ELSE 0]

\* faulty variant: the test asks whether the property is present
TruthyIfPresent(v) == v.t # "undefined"

\* ToBoolean, as `if (data.error)` applies it
Truthy(v) ==
    CASE v.t = "string"  -> v.s # <<>>
      [] v.t = "number"  -> v.n # 0
      [] v.t = "boolean" -> v.n = 1
      [] OTHER           -> FALSE

RECURSIVE Digits(_)
Digits(n) ==
    IF n < 10 THEN <<(<<"0", "1", "2", "3", "4", "5", "6", "7", "8", "9">>)[n + 1]>>
    ELSE Digits(n \div 10) \o Digits(n % 10)

\* ToString, as a template literal `${v}` applies it
toString(v) ==
    CASE v.t = "string"    -> v.s
      [] v.t = "number"    -> Digits(v.n)
      [] v.t = "boolean"   -> IF v.n = 1 THEN <<"true">> ELSE <<"false">>
      [] v.t = "null"      -> <<"null">>
      [] OTHER             -> <<"undefined">>

----------------------------------------------------------------------------
(* Strings *)

LoneSurrogate == "\\uD800"
WhiteSpace == {" ", "\n"}

\* String.prototype.trim
RECURSIVE TrimStart(_)
TrimStart(s) ==
    IF s # <<>> /\ Head(s) \in WhiteSpace THEN TrimStart(Tail(s)) ELSE s

RECURSIVE TrimEnd(_)
TrimEnd(s) ==
    IF s # <<>> /\ s[Len(s)] \in WhiteSpace THEN TrimEnd(SubSeq(s, 1, Len(s) - 1)) ELSE s

trim(s) == TrimEnd(TrimStart(s))

\* encodeURIComponent of one code unit: unreserved units stay, the others
\* become the %XX of their UTF-8 bytes
EncodeUnit(u) ==
    CASE u = " "  -> <<"%", "2", "0">>
      [] u = "?"  -> <<"%", "3", "F">>
      [] u = "&"  -> <<"%", "2", "6">>
      [] u = "="  -> <<"%", "3", "D">>
      [] u = "\n" -> <<"%", "0", "A">>
      [] OTHER    -> <<u>>

RECURSIVE EncodeUnits(_)
EncodeUnits(s) ==
    IF s = <<>> THEN <<>> ELSE EncodeUnit(Head(s)) \o EncodeUnits(Tail(s))

\* encodeURIComponent: throws URIError on a lone surrogate
encodeURIComponent(s) ==
    IF \E i \in 1..Len(s) : s[i] = LoneSurrogate
    THEN [threw |-> TRUE, s |-> <<>>]
    ELSE [threw |-> FALSE, s |-> EncodeUnits(s)]

RECURSIVE ReplaceNewlines(_)
ReplaceNewlines(s) ==
    IF s = <<>> THEN <<>>
    ELSE (IF Head(s) = "\n" THEN <<"<br>">> ELSE <<Head(s)>>) \o ReplaceNewlines(Tail(s))

\* formatMessage(message): message.replace(/\n/g, '<br>'); a TypeError when
\* message has no replace method
formatMessage(message) ==
    CASE message.t = "string" ->
           [threw |-> FALSE, s |-> ReplaceNewlines(message.s), error |-> <<>>]
      [] message.t \in {"undefined", "null"} ->
           [threw |-> TRUE, s |-> <<>>,
            error |-> <<"Cannot read properties of ">> \o toString(message) \o <<" (reading 'replace')">>]
      [] OTHER ->
           [threw |-> TRUE, s |-> <<>>, error |-> <<"message.replace is not a function">>]

----------------------------------------------------------------------------
(* Inputs of the environment *)

\* what the user can leave in the input field
Inputs == { <<>>, <<" ">>, <<" ", "a", "?", " ">>, <<LoneSurrogate>> }

\* keys of the keypress event
Keys == {"Enter", "a"}

\* the .tool-button elements: textContent and data-category (null when absent)
Buttons == { [label |-> <<"T", "a", "x", "?">>, category |-> JStr(<<"finance">>)],
             [label |-> <<"H", "R">>,          category |-> Null] }

\* the property values a response body can carry
ErrorValues  == {Undefined, JStr(<<>>), JNum(0), JBool(FALSE), Null,
                 JStr(<<"rate limited">>)}
AnswerValues == {Undefined, JStr(<<"o", "k", "\n", "n", "o">>), JNum(5)}

\* parsed response bodies: an object with its error and answer properties, or null
Bodies == [t : {"object"}, error : ErrorValues, answer : AnswerValues]
          \cup {[t |-> "null", error |-> Undefined, answer |-> Undefined]}

NoBody == [t |-> "none", error |-> Undefined, answer |-> Undefined]

\* how the network call ends: fetch rejects, response.json() rejects, or a body
Outcomes == {[kind |-> "reject", message |-> <<"Failed to fetch">>, data |-> NoBody],
             [kind |-> "badjson", message |-> <<"Unexpected token < in JSON at position 0">>, data |-> NoBody]}
            \cup {[kind |-> "json", message |-> <<>>, data |-> d] : d \in Bodies}

----------------------------------------------------------------------------
(* The transcript *)

IsTyping(e, c) == e.kind = "typing" /\ e.call = c

RECURSIVE Without(_, _)
Without(ch, c) ==
    IF ch = <<>> THEN <<>>
    ELSE IF IsTyping(Head(ch), c) THEN Tail(ch)
    ELSE <<Head(ch)>> \o Without(Tail(ch), c)

Attached(ch, c) == \E i \in 1..Len(ch) : IsTyping(ch[i], c)

\* function isChatStarted
isChatStarted == Len(chatMessages) > 0

\* function addMessageToChat(message, sender), on transcript ch, for call c
addMessageToChat(ch, message, sender, c) ==
    LET f == formatMessage(message)
    IN IF f.threw
       THEN [chat |-> ch, threw |-> TRUE, error |-> f.error]
       ELSE [chat |-> Append(ch, [kind |-> "message", sender |-> sender,
                                   text |-> message.s, html |-> f.s, call |-> c]),
             threw |-> FALSE, error |-> <<>>]

\* function addTypingIndicator, for call c: the element it returns is the
\* one element of kind "typing" that carries c
addTypingIndicator(ch, c) ==
    Append(ch, [kind |-> "typing", sender |-> "", text |-> <<>>, html |-> <<"Thinking...">>, call |-> c])

\* faulty variant: no parentNode guard, so removeChild is called on null
\* when the element is detached
removeTypingIndicatorUnguarded(ch, c) ==
    IF Attached(ch, c)
    THEN [chat |-> Without(ch, c), threw |-> FALSE, error |-> <<>>]
    ELSE [chat |-> ch, threw |-> TRUE,
          error |-> <<"Cannot read properties of null (reading 'removeChild')">>]

RECURSIVE WithoutFirstTyping(_)
WithoutFirstTyping(ch) ==
    IF ch = <<>> THEN <<>>
    ELSE IF Head(ch).kind = "typing" THEN Tail(ch)
    ELSE <<Head(ch)>> \o WithoutFirstTyping(Tail(ch))

\* faulty variant: the element is looked up by its id, 'typing-indicator',
\* which every indicator carries, so the first one in the document is removed
removeTypingIndicatorById(ch, c) ==
    [chat |-> WithoutFirstTyping(ch), threw |-> FALSE, error |-> <<>>]

\* faulty variant: the handler removes the last child of the transcript,
\* which is the indicator only while nothing was appended after it
removeTypingIndicatorLastChild(ch, c) ==
    IF ch # <<>>
    THEN [chat |-> SubSeq(ch, 1, Len(ch) - 1), threw |-> FALSE, error |-> <<>>]
    ELSE [chat |-> ch, threw |-> FALSE, error |-> <<>>]

\* if (typingIndicator.parentNode) typingIndicator.parentNode.removeChild(typingIndicator)
removeTypingIndicator(ch, c) ==
    IF Attached(ch, c)
    THEN [chat |-> Without(ch, c), threw |-> FALSE, error |-> <<>>]
    ELSE [chat |-> ch, threw |-> FALSE, error |-> <<>>]

\* what one removal attempt did to transcript ch
Removal(ch, r) == [removed |-> Len(ch) - Len(r.chat), threw |-> r.threw]

----------------------------------------------------------------------------
Init ==
    /\ userInput = <<>>
    /\ chatMessages = <<>>
    /\ greeting = "shown"
    /\ timerFired = FALSE
    /\ calls = <<>>
    /\ settled = <<>>
    /\ uncaught = 0
    /\ unhandled = 0

----------------------------------------------------------------------------
(* Settlement: fetch(...).then(r => r.json()).then(data => ...).catch(error => ...) *)

\* faulty variant: the first handler appends its message and leaves the
\* indicator where it is
thenHandlerKeepsIndicator(ch, c, data) ==
    IF data.t = "null"
    THEN [chat |-> ch, threw |-> TRUE,
          error |-> <<"Cannot read properties of null (reading 'error')">>,
          removals |-> <<>>, branches |-> <<>>]
    ELSE IF Truthy(data.error)
    THEN LET a == addMessageToChat(ch, JStr(<<"Error: ">> \o toString(data.error)), "ai", c)
         IN [chat |-> a.chat, threw |-> a.threw, error |-> a.error,
             removals |-> <<>>, branches |-> <<"error">>]
    ELSE LET a == addMessageToChat(ch, data.answer, "ai", c)
         IN [chat |-> a.chat, threw |-> a.threw, error |-> a.error,
             removals |-> <<>>, branches |-> <<"answer">>]

\* the handler of lines 64-76, on transcript ch, for call c, with the parsed body
thenHandler(ch, c, data) ==
    LET r == removeTypingIndicator(ch, c)
    IN IF r.threw
       THEN [chat |-> ch, threw |-> TRUE, error |-> r.error,
             removals |-> <<Removal(ch, r)>>, branches |-> <<>>]
       ELSE IF data.t = "null"
       THEN [chat |-> r.chat, threw |-> TRUE,
             error |-> <<"Cannot read properties of null (reading 'error')">>,
             removals |-> <<Removal(ch, r)>>, branches |-> <<>>]
       ELSE IF Truthy(data.error)
       THEN LET a == addMessageToChat(r.chat, JStr(<<"Error: ">> \o toString(data.error)), "ai", c)
            IN [chat |-> a.chat, threw |-> a.threw, error |-> a.error,
                removals |-> <<Removal(ch, r)>>, branches |-> <<"error">>]
       ELSE LET a == addMessageToChat(r.chat, data.answer, "ai", c)
            IN [chat |-> a.chat, threw |-> a.threw, error |-> a.error,
                removals |-> <<Removal(ch, r)>>, branches |-> <<"answer">>]

\* faulty variant: the failure handler leaves the indicator where it is
catchHandlerKeepsIndicator(ch, c, message) ==
    LET a == addMessageToChat(ch, JStr(<<"Network error: ">> \o message), "ai", c)
    IN [chat |-> a.chat, threw |-> a.threw, error |-> a.error,
        removals |-> <<>>, branches |-> <<"failure">>]

\* the handler of lines 77-85, with error.message
catchHandler(ch, c, message) ==
    LET r == removeTypingIndicator(ch, c)
    IN IF r.threw
       THEN [chat |-> ch, threw |-> TRUE, error |-> r.error,
             removals |-> <<Removal(ch, r)>>, branches |-> <<>>]
       ELSE LET a == addMessageToChat(r.chat, JStr(<<"Network error: ">> \o message), "ai", c)
            IN [chat |-> a.chat, threw |-> a.threw, error |-> a.error,
                removals |-> <<Removal(ch, r)>>, branches |-> <<"failure">>]

\* faulty variant: the chain ends after the first handler, with no .catch
promiseChainNoCatch(ch, c, o) ==
    IF o.kind \in {"reject", "badjson"}
    THEN [chat |-> ch, handlers |-> <<>>, branches |-> <<>>, removals |-> <<>>,
          unhandled |-> TRUE]
    ELSE LET t == thenHandler(ch, c, o.data)
         IN [chat |-> t.chat, handlers |-> <<"then">>, branches |-> t.branches,
             removals |-> t.removals, unhandled |-> t.threw]

\* the chain of lines 62-85 for one outcome of the network call: a rejection
\* of fetch or of response.json() skips the first handler; an exception of
\* the first handler is the rejection the second one receives; an exception
\* of the second one is an unhandled rejection
promiseChain(ch, c, o) ==
    IF o.kind \in {"reject", "badjson"}
    THEN LET k == catchHandler(ch, c, o.message)
         IN [chat |-> k.chat, handlers |-> <<"catch">>, branches |-> k.branches,
             removals |-> k.removals, unhandled |-> k.threw]
    ELSE LET t == thenHandler(ch, c, o.data)
         IN IF ~t.threw
            THEN [chat |-> t.chat, handlers |-> <<"then">>, branches |-> t.branches,
                  removals |-> t.removals, unhandled |-> FALSE]
            ELSE LET k == catchHandler(t.chat, c, t.error)
                 IN [chat |-> k.chat, handlers |-> <<"then", "catch">>,
                     branches |-> t.branches \o k.branches,
                     removals |-> t.removals \o k.removals, unhandled |-> k.threw]

----------------------------------------------------------------------------
(* Submission *)

Count(ch, kind, sender, c) ==
    Cardinality({i \in 1..Len(ch) : ch[i].kind = kind /\ ch[i].sender = sender /\ ch[i].call = c})

\* the request URL of line 62
requestUrl(question, category) ==
    LET e == encodeURIComponent(question)
    IN [threw |-> e.threw,
        url |-> IF e.threw THEN <<>>
                ELSE <<"/api/consult?question=">> \o e.s \o <<"&category=">> \o toString(category)]

\* fetch(url), issued for call c when the transcript is ch
fetch(ch, c, url) ==
    [url |-> url,
     atFetch |-> [user |-> Count(ch, "message", "user", c), typing |-> Count(ch, "typing", "", c)]]

NotIssued == [url |-> <<>>, atFetch |-> [user |-> 0, typing |-> 0]]

\* faulty variant: the request is issued first, the transcript is updated after
sendQuestionBodyFetchFirst(ch, c, question, category) ==
    LET u == requestUrl(question, category)
        m == addMessageToChat(ch, JStr(question), "user", c)
    IN IF u.threw
       THEN [chat |-> ch, threw |-> TRUE, request |-> NotIssued]
       ELSE [chat |-> addTypingIndicator(m.chat, c), threw |-> FALSE,
             request |-> fetch(ch, c, u.url)]

\* lines 55-62 of sendQuestion, as call c on transcript ch: the user message,
\* the indicator, then the request; an exception of encodeURIComponent leaves
\* sendQuestion after the two appends and before fetch
sendQuestionBody(ch, c, question, category) ==
    LET m   == addMessageToChat(ch, JStr(question), "user", c)
        ch2 == addTypingIndicator(m.chat, c)
        u   == requestUrl(question, category)
    IN [chat |-> ch2, threw |-> u.threw,
        request |-> IF u.threw THEN NotIssued ELSE fetch(ch2, c, u.url)]

\* faulty variant: the input field is not cleared
sendQuestionKeepsInput(value, question, category, via) ==
    /\ Len(calls) < MaxCalls
    /\ userInput' = value
    /\ \E b \in {sendQuestionBody(chatMessages, Len(calls) + 1, question, category)} :
          /\ chatMessages' = b.chat
          /\ calls' = Append(calls, [via |-> via, value |-> value, question |-> question,
                                     category |-> category,
                                     status |-> IF b.threw THEN "nofetch" ELSE "pending",
                                     url |-> b.request.url, atFetch |-> b.request.atFetch,
                                     handlers |-> <<>>, branches |-> <<>>, removals |-> <<>>])
          /\ uncaught' = uncaught + (IF b.threw THEN 1 ELSE 0)
    /\ UNCHANGED <<greeting, timerFired, settled, unhandled>>

\* function sendQuestion(question, category), entered with userInput.value = value
sendQuestion(value, question, category, via) ==
    /\ Len(calls) < MaxCalls
    /\ userInput' = <<>>
    /\ \E b \in {sendQuestionBody(chatMessages, Len(calls) + 1, question, category)} :
          /\ chatMessages' = b.chat
          /\ calls' = Append(calls, [via |-> via, value |-> value, question |-> question,
                                     category |-> category,
                                     status |-> IF b.threw THEN "nofetch" ELSE "pending",
                                     url |-> b.request.url, atFetch |-> b.request.atFetch,
                                     handlers |-> <<>>, branches |-> <<>>, removals |-> <<>>])
          /\ uncaught' = uncaught + (IF b.threw THEN 1 ELSE 0)
    /\ UNCHANGED <<greeting, timerFired, settled, unhandled>>

\* faulty variant: the input is not trimmed before the test
sendMessageNoTrim ==
    IF userInput # <<>>
    THEN sendQuestion(userInput, userInput, JStr(<<"general">>), "sendMessage")
    ELSE UNCHANGED vars

\* function sendMessage
sendMessage ==
    LET question == trim(userInput)
    IN IF question # <<>>
       THEN sendQuestion(userInput, question, JStr(<<"general">>), "sendMessage")
       ELSE UNCHANGED vars

----------------------------------------------------------------------------
(* Actions *)

\* the user edits the input field
TypeInput ==
    \E v \in Inputs :
        /\ v # userInput
        /\ userInput' = v
        /\ UNCHANGED <<chatMessages, greeting, timerFired, calls, settled, uncaught, unhandled>>

\* click on the send button (line 27)
ClickSend == sendMessage

\* keypress in the input field (lines 30-34)
KeyPress ==
    \E key \in Keys :
        IF key = "Enter" THEN sendMessage ELSE UNCHANGED vars

\* faulty variant: the button's category is dropped for the default one
ClickToolGeneral ==
    \E b \in Buttons : sendQuestion(b.label, b.label, JStr(<<"general">>), "tool")

\* click on a tool button (lines 18-23): userInput.value = question, then
\* sendQuestion(question, category)
ClickTool ==
    \E b \in Buttons : sendQuestion(b.label, b.label, b.category, "tool")

\* the network call of pending call c ends as o and its promise chain runs
SettleWith(c, o) ==
    /\ calls[c].status = "pending"
    /\ \E p \in {promiseChain(chatMessages, c, o)} :
          /\ chatMessages' = p.chat
          /\ calls' = [calls EXCEPT ![c].status = "settled",
                                    ![c].handlers = p.handlers,
                                    ![c].branches = p.branches,
                                    ![c].removals = p.removals]
          /\ unhandled' = unhandled + (IF p.unhandled THEN 1 ELSE 0)
    /\ settled' = Append(settled, c)
    /\ UNCHANGED <<userInput, greeting, timerFired, uncaught>>

Settle ==
    \E c \in 1..Len(calls), o \in Outcomes : SettleWith(c, o)

\* faulty variant: the callback hides the greeting without looking at the
\* transcript
GreetingTimeoutUnconditional ==
    /\ ~timerFired
    /\ timerFired' = TRUE
    /\ greeting' = "hidden"
    /\ UNCHANGED <<userInput, chatMessages, calls, settled, uncaught, unhandled>>

\* the callback of setTimeout(..., 2000) (lines 10-14)
GreetingTimeout ==
    /\ ~timerFired
    /\ timerFired' = TRUE
    /\ greeting' = IF ~isChatStarted THEN "hidden" ELSE greeting
    /\ UNCHANGED <<userInput, chatMessages, calls, settled, uncaught, unhandled>>

Next ==
    \/ TypeInput
    \/ ClickSend
    \/ KeyPress
    \/ ClickTool
    \/ Settle
    \/ GreetingTimeout

Spec == Init /\ [][Next]_vars

\* The request lifecycle alone.  The timer callback writes greeting and
\* timerFired and nothing else, and no other handler reads either, so the
\* lifecycle has the same runs with and without it.
RequestNext ==
    \/ TypeInput
    \/ ClickSend
    \/ KeyPress
    \/ ClickTool
    \/ Settle

RequestSpec == Init /\ [][RequestNext]_vars

----------------------------------------------------------------------------
(* Properties *)

Calls == 1..Len(calls)

Settled(c) == calls[c].status = "settled"

\* positions of the messages of call c by sender
Messages(c, sender) ==
    {i \in 1..Len(chatMessages) :
        /\ chatMessages[i].kind = "message"
        /\ chatMessages[i].sender = sender
        /\ chatMessages[i].call = c}

\* the step removes the indicator of call c, if attached, and appends one
\* assistant message with this text; every other element stays in place
AppendsAssistant(c, text) ==
    /\ Len(chatMessages') = Len(Without(chatMessages, c)) + 1
    /\ SubSeq(chatMessages', 1, Len(chatMessages') - 1) = Without(chatMessages, c)
    /\ LET e == chatMessages'[Len(chatMessages')]
       IN e.kind = "message" /\ e.sender = "ai" /\ e.call = c /\ e.text = text
    /\ ~Attached(chatMessages', c)

\* the step is a settlement of call c
Settles(c) == calls[c].status = "pending" /\ settled' = Append(settled, c)

HasErrorField(data) == data.error.t # "undefined"

\* the outcomes of a network call by kind: a parsed object, a rejection
ObjectOutcomes  == {o \in Outcomes : o.kind = "json" /\ o.data.t = "object"}
FailureOutcomes == {o \in Outcomes : o.kind \in {"reject", "badjson"}}

\* the branches call c entered, after the step
BranchesAfter(c) == {calls'[c].branches[i] : i \in 1..Len(calls'[c].branches)}

\* C1: every settled request ran exactly one of the two handlers and
\* entered exactly one of the three branches (answer, error, failure).
C1_ExactlyOneBranch ==
    \A c \in Calls :
        Settled(c) => Len(calls[c].handlers) = 1 /\ Len(calls[c].branches) = 1

\* C2, as stated: a parsed body with an error field, whatever its value,
\* settles as one assistant message "Error: " + error, and the error branch
\* is taken exactly when the field is present.
C2_ErrorByPresence ==
    [][\A c \in Calls :
          Settles(c) =>
             \A o \in ObjectOutcomes :
                SettleWith(c, o) =>
                  /\ HasErrorField(o.data) =>
                        AppendsAssistant(c, <<"Error: ">> \o toString(o.data.error))
                  /\ HasErrorField(o.data) <=> calls'[c].branches = <<"error">>]_vars

\* the falsy values a JSON body can carry, and the absent property
Falsy == {Undefined, Null, JStr(<<>>), JNum(0), JBool(FALSE)}

\* the body o with its error field taken away
WithoutError(o) == [o EXCEPT !.data.error = Undefined]

\* for a request in flight, a body whose error field is "", 0, false or
\* null runs the chain exactly as the same body without the field
FalsyErrorAsAbsent ==
    \A c \in Calls :
        calls[c].status = "pending" =>
           \A o \in ObjectOutcomes :
              (HasErrorField(o.data) /\ o.data.error \in Falsy) =>
                  promiseChain(chatMessages, c, o) = promiseChain(chatMessages, c, WithoutError(o))

\* a settlement with a truthy error field appends one assistant message
\* "Error: " + error and no other, by the first handler alone; the error
\* branch is entered exactly when the field is truthy
ErrorBranchWhenTruthy ==
    \A c \in Calls :
        Settles(c) =>
           \A o \in ObjectOutcomes :
              \/ /\ o.data.error \notin Falsy =>
                       /\ AppendsAssistant(c, <<"Error: ">> \o toString(o.data.error))
                       /\ calls'[c].handlers = <<"then">>
                 /\ o.data.error \notin Falsy <=> "error" \in BranchesAfter(c)
              \/ ~SettleWith(c, o)

\* C2, amended: a parsed body whose error field is truthy settles as one
\* assistant message "Error: " + error and no other; the error branch is
\* taken exactly when the field is truthy, so a body whose error field is
\* "", 0, false or null is handled as a body without one.
C2_ErrorByTruthiness == []FalsyErrorAsAbsent /\ [][ErrorBranchWhenTruthy]_vars

C2_Witness ==
    \E c \in Calls :
        /\ Settled(c) /\ calls[c].branches = <<"error">>
        /\ \E i \in Messages(c, "ai") : chatMessages[i].text = <<"Error: ", "rate limited">>

\* C3: a parsed body without an error field settles as one assistant
\* message whose text is the body's answer, with the indicator removed.
C3_AnswerAppended ==
    [][\A c \in Calls :
          Settles(c) =>
             \A o \in ObjectOutcomes :
                (~HasErrorField(o.data) /\ SettleWith(c, o)) =>
                    AppendsAssistant(c, toString(o.data.answer))]_vars

\* C4: a rejection of fetch or of response.json() settles as the removal of
\* the request's indicator and one assistant message "Network error: " +
\* error.message, and nothing else.
C4_TransportFailure ==
    [][\A c \in Calls :
          Settles(c) =>
             \A o \in FailureOutcomes :
                SettleWith(c, o) =>
                  /\ AppendsAssistant(c, <<"Network error: ">> \o o.message)
                  /\ Cardinality(Messages(c, "ai")) = 0
                  /\ calls'[c].handlers = <<"catch">>]_vars

C4_Witness ==
    \E c \in Calls :
        /\ Settled(c) /\ calls[c].handlers = <<"catch">>
        /\ ~Attached(chatMessages, c)
        /\ \E i \in Messages(c, "ai") :
              chatMessages[i].text = <<"Network error: ", "Failed to fetch">>

\* C5: a click on the send control or an Enter keypress while the input is
\* empty or whitespace-only appends nothing, creates no indicator and issues
\* no request, whatever is in flight.
C5_EmptyIgnored ==
    [][(trim(userInput) = <<>> /\ (ClickSend \/ KeyPress)) =>
          UNCHANGED <<chatMessages, calls>>]_vars

C5_Witness ==
    /\ userInput = <<" ">>
    /\ \E c \in Calls : calls[c].status = "pending"
    /\ \E c \in Calls : Settled(c)

\* C6: a submission of an input that is non-empty after trimming appends
\* exactly one user message, the trimmed text; the message is in the
\* transcript when the request is issued and stands before any message of
\* the request's settlement.
C6_UserMessageFirst ==
    \A c \in Calls :
        /\ Cardinality(Messages(c, "user")) = 1
        /\ \A i \in Messages(c, "user") : chatMessages[i].text = calls[c].question
        /\ calls[c].status # "nofetch" => calls[c].atFetch.user = 1
        /\ \A i \in Messages(c, "user"), j \in Messages(c, "ai") : i < j
        /\ calls[c].via = "sendMessage" =>
              calls[c].question = trim(calls[c].value) /\ calls[c].question # <<>>

C6_Witness ==
    \E c \in Calls :
        /\ calls[c].via = "sendMessage"
        /\ calls[c].value = <<" ", "a", "?", " ">>
        /\ calls[c].question = <<"a", "?">>
        /\ Settled(c)
        /\ \E i \in Messages(c, "user") : chatMessages[i].text = <<"a", "?">>

\* a submission from this entry point is taken: one more call of
\* sendQuestion, with its user message and its indicator in the transcript
Accepts(A) ==
    /\ A
    /\ Len(calls') = Len(calls) + 1
    /\ Len(chatMessages') = Len(chatMessages) + 2

SettlementOrder ==
    \A i, j \in 1..Len(settled) :
        i < j => \A x \in Messages(settled[i], "ai"), y \in Messages(settled[j], "ai") : x < y

\* a settlement removes the indicator of its own request and no other, and
\* appends its message at the end
SettlesOwn ==
    \A c \in Calls :
        Settles(c) =>
            /\ Len(chatMessages') = Len(Without(chatMessages, c)) + 1
            /\ SubSeq(chatMessages', 1, Len(chatMessages') - 1) = Without(chatMessages, c)
            /\ LET e == chatMessages'[Len(chatMessages')]
               IN e.kind = "message" /\ e.sender = "ai" /\ e.call = c
            /\ \A d \in Calls \ {c} : Attached(chatMessages', d) <=> Attached(chatMessages, d)

\* C8: with several requests in flight, assistant messages are appended in
\* settlement order, not submission order, and each settlement removes only
\* its own request's indicator and appends its message at the end.
C8_SettlementOrder == []SettlementOrder /\ [][SettlesOwn]_vars

C8_Witness ==
    /\ settled = <<2, 1>>
    /\ \E x \in Messages(2, "ai"), y \in Messages(1, "ai") : x < y
    /\ ~Attached(chatMessages, 1) /\ ~Attached(chatMessages, 2)

\* C9: a click on a shortcut with label L and category C enters sendQuestion
\* with the input field holding L, appends one user message L and one
\* indicator, and issues exactly one request, for question L and category C.
C9_Shortcut ==
    \A c \in Calls :
        calls[c].via = "tool" =>
            \E b \in Buttons :
                /\ calls[c].value = b.label
                /\ calls[c].question = b.label
                /\ calls[c].category = b.category
                /\ Cardinality(Messages(c, "user")) = 1
                /\ \A i \in Messages(c, "user") : chatMessages[i].text = b.label
                /\ calls[c].status # "nofetch"
                /\ calls[c].atFetch = [user |-> 1, typing |-> 1]
                /\ b.category.t = "string" =>
                      calls[c].url = <<"/api/consult?question=">> \o EncodeUnits(b.label)
                                       \o <<"&category=">> \o b.category.s

C9_Witness ==
    \E c \in Calls :
        /\ calls[c].via = "tool"
        /\ calls[c].status = "pending"
        /\ calls[c].url = <<"/api/consult?question=", "T", "a", "x", "%", "3", "F", "&category=", "finance">>
        /\ Attached(chatMessages, c)
        /\ userInput = <<>>

\* C10: a second attempt to remove a request's indicator, made by the
\* failure handler after the first handler removed it and then threw,
\* removes nothing and throws nothing.
C10_SecondRemovalNoop ==
    /\ unhandled = 0
    /\ \A c \in Calls :
          Settled(c) =>
              /\ Len(calls[c].removals) \in {1, 2}
              /\ calls[c].removals[1] = [removed |-> 1, threw |-> FALSE]
              /\ Len(calls[c].removals) = 2 =>
                    calls[c].removals[2] = [removed |-> 0, threw |-> FALSE]

C10_Witness ==
    \E c \in Calls :
        /\ Settled(c)
        /\ Len(calls[c].removals) = 2
        /\ \E d \in Calls : d # c /\ Attached(chatMessages, d)

----------------------------------------------------------------------------
(* The greeting *)

\* the messages of the transcript, the indicators left out
MessageLog(ch) == SelectSeq(ch, LAMBDA e : e.kind = "message")

\* the step is the timer's callback
TimerFires == ~timerFired /\ timerFired'

\* C11: when the one-shot timer fires, the greeting is hidden if and only
\* if the transcript holds no message at that moment, and is left as it is
\* otherwise; the timer fires once, and nothing else touches the greeting.
C11_GreetingTimer ==
    [][/\ TimerFires =>
            /\ MessageLog(chatMessages) = <<>> => greeting' = "hidden"
            /\ MessageLog(chatMessages) # <<>> => greeting' = greeting
            /\ UNCHANGED <<userInput, chatMessages, calls, settled>>
       /\ timerFired => timerFired'
       /\ ~TimerFires => greeting' = greeting]_vars

C11_Witness ==
    /\ timerFired
    /\ greeting = "shown"
    /\ MessageLog(chatMessages) # <<>>

\* C12: the greeting is hidden by whichever comes first of the timer and
\* the first submission: once the timer has fired or a submission has been
\* taken, the greeting is hidden.
C12_GreetingHidden ==
    (timerFired \/ Len(calls) > 0) => greeting = "hidden"

----------------------------------------------------------------------------
(* Placeholders and requests *)

\* the requests issued and not yet settled
InFlight == {c \in Calls : calls[c].status = "pending"}

\* the indicators attached to the transcript
Placeholders == {i \in 1..Len(chatMessages) : chatMessages[i].kind = "typing"}

\* C13: the placeholders attached to the transcript are as many as the
\* requests in flight, one for each such request and for no other call; a
\* step that detaches the placeholder of a call is that call's settlement.
C13_PlaceholderPerRequest ==
    /\ []( /\ Cardinality(Placeholders) = Cardinality(InFlight)
           /\ \A c \in Calls : Attached(chatMessages, c) <=> c \in InFlight )
    /\ [][\A c \in Calls :
            (Attached(chatMessages, c) /\ ~Attached(chatMessages', c)) => Settles(c)]_vars

----------------------------------------------------------------------------
(* Settlement of every request *)

\* the network call of request c rejects (fetch or response.json()), or
\* resolves with a body
Rejects(c)  == \E o \in FailureOutcomes : SettleWith(c, o)
Resolves(c) == \E o \in Outcomes \ FailureOutcomes : SettleWith(c, o)

\* the network call of request c settles, one way or the other
NetworkSettles(c) == c \in Calls /\ Settles(c) /\ (Rejects(c) \/ Resolves(c))

\* The lifecycle of the questions sent from the input field.  A shortcut
\* enters the same sendQuestion with another text and category, and no
\* settlement reads either.
InputNext ==
    \/ TypeInput
    \/ ClickSend
    \/ KeyPress
    \/ Settle

\* The proviso that every network call eventually resolves or rejects: the
\* promise machinery runs the reactions of a settled promise, so a
\* settlement that stays possible is taken.
FairInputSpec ==
    /\ Init
    /\ [][InputNext]_vars
    /\ \A c \in 1..MaxCalls : WF_vars(NetworkSettles(c))

\* request c is settled, its placeholder gone and one assistant message of
\* it in the transcript
Answered(c) ==
    /\ c \in Calls
    /\ Settled(c)
    /\ ~Attached(chatMessages, c)
    /\ Cardinality(Messages(c, "ai")) = 1

\* C14: every issued request is eventually settled with its placeholder
\* removed and one assistant message of it in the transcript, given that its
\* network call resolves or rejects; the client has no timeout of its own:
\* until that settlement the request stays in flight with its placeholder.
C14_EventuallySettled ==
    /\ \A c \in 1..MaxCalls : (c \in InFlight) ~> Answered(c)
    /\ [][\A c \in InFlight :
            ~Settles(c) => (c \in InFlight' /\ Attached(chatMessages', c))]_vars

C14_Witness ==
    \E c \in Calls :
        /\ Answered(c)
        /\ calls[c].handlers = <<"then">>
        /\ calls[c].branches = <<"answer">>
        /\ InFlight # {}

----------------------------------------------------------------------------
(* The message log *)

IsPrefix(s, t) == Len(s) <= Len(t) /\ SubSeq(t, 1, Len(s)) = s

\* C15: the message log is append-only: in every step, of a submission, a
\* settlement with its removal of an indicator, or the timer, the user and
\* assistant messages before the step are a prefix of those after it.
C15_AppendOnly ==
    [][\/ UNCHANGED chatMessages
       \/ IsPrefix(MessageLog(chatMessages), MessageLog(chatMessages'))]_vars

C15_Witness ==
    /\ timerFired
    /\ Len(MessageLog(chatMessages)) = 4
    /\ Placeholders = {}
    /\ settled = <<2, 1>>

----------------------------------------------------------------------------
(* Shortcut controls of any page *)

\* The .tool-button elements a page can hold: those of Buttons, one with no
\* text (an icon alone), one whose data-category holds reserved characters.
Controls ==
    Buttons \cup
    { [label |-> <<>>,                category |-> JStr(<<"finance">>)],
      [label |-> <<"R", "&", "D">>,   category |-> JStr(<<"R", "&", "D", " ", "x", "=", "1">>)] }

\* click on a tool button of such a page (lines 18-23)
ClickControl ==
    \E b \in Controls : sendQuestion(b.label, b.label, b.category, "tool")

\* a network call in flight is rejected
NetworkFails == \E c \in Calls : Rejects(c)

\* The submissions of a page with any controls, while the network fails:
\* what a submission appends and sends is fixed when sendQuestion returns.
ControlNext ==
    \/ TypeInput
    \/ ClickSend
    \/ KeyPress
    \/ ClickControl
    \/ NetworkFails

ControlSpec == Init /\ [][ControlNext]_vars

\* C16: every call of sendQuestion, from the send control, the Enter key or
\* a shortcut, has a question that is non-empty after trimming: no user
\* message is empty and no request carries an empty question.
C16_QuestionNonEmpty ==
    \A c \in Calls :
        /\ trim(calls[c].question) # <<>>
        /\ \A i \in Messages(c, "user") : chatMessages[i].text # <<>>
        /\ calls[c].status # "nofetch" =>
              calls[c].url # <<"/api/consult?question=", "&category=">> \o toString(calls[c].category)

----------------------------------------------------------------------------
(* Network calls *)

\* the calls of sendQuestion that reached fetch
Issued == {c \in Calls : calls[c].status # "nofetch"}

\* C17: every accepted submission issues exactly one network call and no
\* settlement issues another: the network calls issued are as many as the
\* user messages in the transcript, and a settlement leaves them as they are.
C17_OneCallPerSubmission ==
    /\ [](Cardinality(Issued) =
            Cardinality({i \in 1..Len(chatMessages) :
                            chatMessages[i].kind = "message" /\ chatMessages[i].sender = "user"}))
    /\ [][\A c \in Calls :
            Settles(c) =>
               /\ Len(calls') = Len(calls)
               /\ \A d \in Calls : calls'[d].url = calls[d].url]_vars

\* the positions of the messages of a sender
MessagesOf(sender) ==
    {i \in 1..Len(chatMessages) :
        chatMessages[i].kind = "message" /\ chatMessages[i].sender = sender}

\* C18: every assistant message stands after the user message of the
\* request it answers; the assistant messages are never more than the user
\* messages, and as many whenever no request is in flight.
C18_AnswersFollowQuestions ==
    /\ \A j \in MessagesOf("ai") :
          \E i \in MessagesOf("user") : i < j /\ chatMessages[i].call = chatMessages[j].call
    /\ Cardinality(MessagesOf("ai")) <= Cardinality(MessagesOf("user"))
    /\ InFlight = {} => Cardinality(MessagesOf("ai")) = Cardinality(MessagesOf("user"))

\* C19: every request carries its question and its category URL-encoded,
\* whatever the question and whatever the control's data-category, a missing
\* attribute included.
C19_BothEncoded ==
    \A c \in Issued :
        calls[c].url = <<"/api/consult?question=">> \o EncodeUnits(calls[c].question)
                         \o <<"&category=">> \o EncodeUnits(toString(calls[c].category))

----------------------------------------------------------------------------
(* The input field *)

\* C20: a step that takes a submission, from the send control, the Enter key
\* or a shortcut, leaves the input field empty; a click on the send control
\* or an Enter keypress on an empty or whitespace-only input leaves the input
\* field, the transcript and the requests in flight as they were.
C20_InputCleared ==
    [][/\ Len(calls') = Len(calls) + 1 =>
            /\ ClickSend \/ KeyPress \/ ClickTool
            /\ userInput' = <<>>
       /\ (trim(userInput) = <<>> /\ (ClickSend \/ KeyPress)) =>
            /\ userInput' = userInput
            /\ chatMessages' = chatMessages
            /\ InFlight' = InFlight
            /\ Len(calls') = Len(calls)]_vars

C20_Witness ==
    /\ userInput = <<>>
    /\ Len(calls) = 2
    /\ calls[1].via = "sendMessage" /\ calls[1].value = <<" ", "a", "?", " ">>
    /\ calls[2].via = "tool"
    /\ InFlight = {1, 2}
====
